---- MODULE Spec2Model ----
(***************************************************************************)
(* Model of server.py: the WhatsApp webhook relay.                         *)
(*                                                                         *)
(*   GET  /webhook  -> verify()   the platform's subscription handshake    *)
(*   POST /webhook  -> webhook()  relays an image to the number found in   *)
(*                                the caption and confirms to the sender   *)
(*                                                                         *)
(* Strings that the code inspects character by character (captions and     *)
(* phone numbers) are sequences of one-character strings.  Python's None   *)
(* in such a slot is the empty sequence: the code only ever tests these    *)
(* values with `not x`, which does not tell None from "".                  *)
(***************************************************************************)
EXTENDS Integers, Sequences, FiniteSets

\* Longest padding the caption generator puts around and between digit runs.
MaxPad == 1

VARIABLES
    VERIFY_TOKEN,   \* os.getenv("WHATSAPP_VERIFY_TOKEN"), read once at import
    pc,             \* control point of the request being handled
    method,         \* "none" | "GET" | "POST"
    args,           \* query parameters of the GET request
    payload,        \* shape of the POST body as request.get_json sees it
    sender,         \* webhook(): sender
    image,          \* webhook(): image   (shape of msg.get("image"))
    text,           \* webhook(): text    (msg.get("text", {}).get("body"))
    destination,    \* webhook(): destination
    exc,            \* exception propagating inside webhook(), "none" if none
    calls,          \* outbound HTTP requests actually sent, oldest first
    resp            \* HTTP response returned to the platform

vars == <<VERIFY_TOKEN, pc, method, args, payload, sender, image, text,
          destination, exc, calls, resp>>

----------------------------------------------------------------------------
(* Characters and the regular expression of extract_valid_number.          *)

Digits == {"0", "1", "2", "3", "4", "5", "6", "7", "8", "9"}

Letters == {"a", "b", "c", "d", "e", "f", "g", "h", "i", "j", "k", "l", "m",
            "n", "o", "p", "q", "r", "s", "t", "u", "v", "w", "x", "y", "z"}

\* Python None in a phone-number or caption slot, and re.search's "no match".
NoNumber == << >>

\* A truthy body that is not a str (a JSON number, list or object).
NonStringBody == <<"<non-str>">>

\* \d
IsDigit(c) == c \in Digits

\* \w : letters, digits and the underscore
IsWord(c) == c \in Digits \cup Letters \cup {"_"}

\* \b at offset i (0 .. Len(s)): exactly one of the characters around the
\* offset is a word character; beyond either edge counts as non-word.
WordBoundary(s, i) ==
    LET before == i > 0 /\ IsWord(s[i])
        after  == i < Len(s) /\ IsWord(s[i + 1])
    IN  before # after

\* \b569\d{8} : the closing \b left out
MatchAtNoTrailingBoundary(s, i) ==
    /\ i + 11 <= Len(s)
    /\ WordBoundary(s, i)
    /\ s[i + 1] = "5" /\ s[i + 2] = "6" /\ s[i + 3] = "9"
    /\ \A k \in 4..11 : IsDigit(s[i + k])

\* Does \b569\d{8}\b match with its first character right after offset i?
MatchAt(s, i) ==
    /\ i + 11 <= Len(s)
    /\ WordBoundary(s, i)
    /\ s[i + 1] = "5" /\ s[i + 2] = "6" /\ s[i + 3] = "9"
    /\ \A k \in 4..11 : IsDigit(s[i + k])
    /\ WordBoundary(s, i + 11)

\* the last match instead of the first (re.findall(...)[-1])
re_search_last(s) ==
    LET starts == {i \in 0..Len(s) : MatchAt(s, i)}
    IN  IF starts = {} THEN NoNumber
        ELSE LET last == CHOOSE i \in starts : \A j \in starts : i >= j
             IN  SubSeq(s, last + 1, last + 11)

\* re.search: the match at the leftmost offset that admits one.
re_search(s) ==
    LET starts == {i \in 0..Len(s) : MatchAt(s, i)}
    IN  IF starts = {} THEN NoNumber
        ELSE LET first == CHOOSE i \in starts : \A j \in starts : i <= j
             IN  SubSeq(s, first + 1, first + 11)

extract_valid_number(s) ==
    IF s = << >> THEN NoNumber ELSE re_search(s)

----------------------------------------------------------------------------
(* Captions the model feeds to the code.                                   *)

PadChars == {"1", "a", "_", " "}

\* The underscore behaves like a letter; message captions do without it.
MessagePadChars == {"1", "a", " "}

RECURSIVE Pads(_, _)
Pads(n, chars) ==
    IF n = 0 THEN {<< >>}
    ELSE LET shorter == Pads(n - 1, chars)
         IN  shorter \cup {Append(p, c) : p \in shorter, c \in chars}

NumberA   == <<"5", "6", "9", "1", "2", "3", "4", "5", "6", "7", "8">>
NumberB   == <<"5", "6", "9", "8", "7", "6", "5", "4", "3", "2", "1">>
TooShort  == <<"5", "6", "9", "1", "2", "3", "4", "5">>
TooLong   == <<"5", "6", "9", "1", "2", "3", "4", "5", "6", "7", "8", "9", "0">>
WrongCode == <<"5", "6", "8", "1", "2", "3", "4", "5", "6", "7", "8">>
Hola      == <<"h", "o", "l", "a">>

Runs == {<< >>, NumberA, NumberB, TooShort, TooLong, WrongCode}

\* pad run pad run pad
Captions ==
    {p1 \o r1 \o p2 \o r2 \o p3 :
        p1 \in Pads(MaxPad, PadChars), r1 \in Runs,
        p2 \in Pads(MaxPad, PadChars), r2 \in Runs,
        p3 \in Pads(MaxPad, PadChars)}

\* pad run pad, and a caption without any digit
MessageCaptions ==
    {p1 \o r \o p2 :
        p1 \in Pads(MaxPad, MessagePadChars), r \in Runs,
        p2 \in Pads(MaxPad, MessagePadChars)}
        \cup {Hola}

----------------------------------------------------------------------------
(* Inputs.                                                                 *)

\* String-valued slots (query parameters, the configured secret) hold this
\* when Python has None there: request.args.get of a parameter that was not
\* supplied, os.getenv of a variable that is not set.
None == "<None>"

Secret == "s3cret"

SenderNumber == <<"5", "6", "9", "0", "0", "0", "0", "0", "0", "0", "1">>

\* Query parameters of GET /webhook.
Queries ==
    [mode      : {None, "subscribe", "unsubscribe"},
     token     : {None, Secret, "guess"},
     challenge : {None, "1158201444"}]

NoQuery == [mode |-> None, token |-> None, challenge |-> None]

\* How one outbound HTTP request can end.
\*   ok             2xx with the body the code hopes for
\*   incomplete     2xx whose JSON lacks the field the code reads
\*                  ("url" when resolving, "id" when uploading), or
\*                  2xx with empty content when fetching the bytes
\*   http_error     4xx / 5xx
\*   network_error  requests.ConnectionError
\*   timeout        requests.Timeout after timeout=10
MediaOutcomes   == {"ok", "incomplete", "http_error", "network_error", "timeout"}
MessageOutcomes == {"ok", "http_error", "network_error", "timeout"}

\* The POST body, field by field, as the statements of webhook() see it.
\*   data      "none"       get_json(silent=True) gave None (unparseable
\*                          body, wrong content type, JSON null)
\*             "nonobject"  a JSON list, string or number
\*   entry, changes
\*             "absent"     key missing: .get falls back to []
\*             "empty"      falsy: [], null, "", 0, {}
\*             "bad"        a list whose first item is no object
\*   value     "absent"     key missing: .get falls back to {}
\*             "empty"      {}
\*             "null"       null or a number: `in` raises TypeError
\*             "nomessages" an object without "messages" (statuses, ...)
\*             "fake"       a string or list containing "messages": the
\*                          `in` test passes and value["messages"] raises
\*   messages  "empty"      [] : [0] raises IndexError
\*             "bad"        null, or a list whose first item is no object
\*   from      the sender's number, NoNumber when the key is missing
\*   image     "absent" | "empty" (null, {}) | "nondict" (a truthy
\*             non-object) | "noid" (an object without "id") | "ok"
\*   text      "absent" | "bad" (present but no object: null, a string) |
\*             "ok" (an object)
\*   body      text.body: NoNumber when missing, null or "",
\*             NonStringBody, or the caption
WellFormed ==
    [data |-> "object", entry |-> "ok", changes |-> "ok", value |-> "ok",
     messages |-> "ok", from |-> SenderNumber, image |-> "ok",
     text |-> "ok", body |-> NumberA]

ImageShapes == {"absent", "empty", "nondict", "noid", "ok"}

\* <<text, body>>
TextShapes ==
    {<<"absent", NoNumber>>, <<"bad", NoNumber>>}
        \cup {<<"ok", b>> : b \in {NoNumber, NonStringBody, NumberA, Hola,
                                    TooShort, TooLong}}

\* Every shape of sender, image and text with a handful of bodies, and the
\* whole family of captions with and without an image.
Messages ==
    {[WellFormed EXCEPT !.from = f, !.image = i, !.text = t[1], !.body = t[2]] :
        f \in {NoNumber, SenderNumber}, i \in ImageShapes, t \in TextShapes}
    \cup {[WellFormed EXCEPT !.image = i, !.body = c] :
            i \in {"absent", "ok"}, c \in MessageCaptions}

Payloads ==
    {[WellFormed EXCEPT !.data = x] : x \in {"none", "nonobject"}}
    \cup {[WellFormed EXCEPT !.entry = x] : x \in {"absent", "empty", "bad"}}
    \cup {[WellFormed EXCEPT !.changes = x] : x \in {"absent", "empty", "bad"}}
    \cup {[WellFormed EXCEPT !.value = x] :
            x \in {"absent", "empty", "null", "nomessages", "fake"}}
    \cup {[WellFormed EXCEPT !.messages = x] : x \in {"empty", "bad"}}
    \cup Messages

----------------------------------------------------------------------------
(* Python semantics the handler relies on.                                 *)

\* `except (KeyError, IndexError, TypeError):` instead of `except Exception:`
HandledLookupOnly(e) == e \in {"KeyError", "IndexError", "TypeError"}

\* an except clause that forgets IndexError
HandledNoIndexError(e) == e \in {"AttributeError", "KeyError", "TypeError",
                                "RequestException", "HTTPError", "MissingSchema"}

\* `except Exception:` handles every exception the handler can raise.
Handled(e) == e \in {"AttributeError", "KeyError", "IndexError", "TypeError",
                     "RequestException", "HTTPError", "MissingSchema"}

\* requests.get / requests.post raise only when no response arrives.
RequestRaises(o) ==
    CASE o = "network_error" -> "RequestException"
      [] o = "timeout"       -> "RequestException"
      [] OTHER               -> "none"

\* r.raise_for_status()
RaiseForStatus(o) == IF o = "http_error" THEN "HTTPError" ELSE "none"

\* `not image`
ImageMissing(i) == i \in {"absent", "empty"}

\* Lines 125-143: what the payload makes of the walk down to the first
\* message.  "return" is one of the early `return jsonify(ok=True), 200`,
\* "message" means sender, image and text were read, anything else is the
\* exception the walk raises.
ParseResult(p) ==
    CASE p.data \in {"none", "nonobject"}   -> "AttributeError"  \* data.get
      [] p.entry \in {"absent", "empty"}    -> "return"
      [] p.entry = "bad"                    -> "AttributeError"  \* entry[0].get
      [] p.changes \in {"absent", "empty"}  -> "return"
      [] p.changes = "bad"                  -> "AttributeError"  \* changes[0].get
      [] p.value \in {"absent", "empty", "nomessages"} -> "return"
      [] p.value \in {"null", "fake"}       -> "TypeError"
      [] p.messages = "empty"               -> "IndexError"
      [] p.messages = "bad"                 -> "TypeError"
      [] p.text = "bad"                     -> "AttributeError"  \* .get("body")
      [] OTHER                              -> "message"

\* the caption checked before the image
ValidationTextFirst(img, txt) ==
    CASE txt = NoNumber                       -> "notify_number_required"
      [] ImageMissing(img)                    -> "notify_image_required"
      [] txt = NonStringBody                  -> "TypeError"
      [] extract_valid_number(txt) = NoNumber -> "notify_invalid_format"
      [] img = "nondict"                      -> "TypeError"
      [] img = "noid"                         -> "KeyError"
      [] OTHER                                -> "resolve"

\* the `if not destination` check left out
ValidationNoFormatCheck(img, txt) ==
    CASE ImageMissing(img)                    -> "notify_image_required"
      [] txt = NoNumber                       -> "notify_number_required"
      [] txt = NonStringBody                  -> "TypeError"
      [] img = "nondict"                      -> "TypeError"
      [] img = "noid"                         -> "KeyError"
      [] OTHER                                -> "resolve"

\* Lines 149-175: the checks between reading the message and the first
\* outbound request.  The result is the control point reached, or the
\* exception raised on the way.
Validation(img, txt) ==
    CASE ImageMissing(img)                    -> "notify_image_required"
      [] txt = NoNumber                       -> "notify_number_required"
      [] txt = NonStringBody                  -> "TypeError"   \* re.search
      [] extract_valid_number(txt) = NoNumber -> "notify_invalid_format"
      [] img = "nondict"                      -> "TypeError"   \* image["id"]
      [] img = "noid"                         -> "KeyError"    \* image["id"]
      [] OTHER                                -> "resolve"

\* download_media, first request: any exception makes it return None.  An
\* answer without "url" leaves media_url = None, and requests.get(None)
\* raises MissingSchema before anything is sent.
ResolveError(o) ==
    CASE RequestRaises(o) # "none"  -> RequestRaises(o)
      [] RaiseForStatus(o) # "none" -> RaiseForStatus(o)
      [] o = "incomplete"           -> "MissingSchema"
      [] OTHER                      -> "none"

AfterResolve(o) ==
    IF ResolveError(o) = "none" THEN "fetch" ELSE "notify_download_error"

\* the result of download_media used without `if not image_bytes`
AfterFetchUnchecked(o) == "upload"

\* download_media, second request, and `if not image_bytes` (empty content
\* is falsy too).

AfterFetch(o) ==
    IF RequestRaises(o) = "none" /\ RaiseForStatus(o) = "none" /\ o # "incomplete"
    THEN "upload" ELSE "notify_download_error"

\* upload_media and `if not new_media_id`.
AfterUpload(o) ==
    IF RequestRaises(o) = "none" /\ RaiseForStatus(o) = "none" /\ o # "incomplete"
    THEN "send_image" ELSE "notify_upload_error"

\* send_image looks at nothing but whether requests.post raised.
AfterSendImage(o) ==
    IF RequestRaises(o) = "none" THEN "confirm" ELSE "except"

\* Every send_text is followed by a return (or the end of the try block).
AfterSendText(o) ==
    IF RequestRaises(o) = "none" THEN "respond" ELSE "except"

Call(op, to, about, o) == [op |-> op, to |-> to, about |-> about, outcome |-> o]

NoResponse == [status |-> 0, body |-> ""]

----------------------------------------------------------------------------
(* The state machine.                                                      *)

Idle ==
    /\ pc = "idle"
    /\ method = "none"
    /\ args = NoQuery
    /\ payload = WellFormed
    /\ sender = NoNumber
    /\ image = "absent"
    /\ text = NoNumber
    /\ destination = NoNumber
    /\ exc = "none"
    /\ calls = << >>
    /\ resp = NoResponse

Init ==
    /\ VERIFY_TOKEN \in {None, Secret}
    /\ Idle

\* GET /webhook
verify(q) ==
    /\ pc = "idle"
    /\ method' = "GET"
    /\ args' = q
    /\ resp' = IF q.mode = "subscribe" /\ q.token = VERIFY_TOKEN
               THEN IF q.challenge = None
                    \* Flask cannot build a response from (None, 200)
                    THEN [status |-> 500, body |-> "Internal Server Error"]
                    ELSE [status |-> 200, body |-> q.challenge]
               ELSE [status |-> 403, body |-> "Forbidden"]
    /\ pc' = "done"
    /\ UNCHANGED <<VERIFY_TOKEN, payload, sender, image, text, destination,
                   exc, calls>>

\* POST /webhook arrives
webhook(p) ==
    /\ pc = "idle"
    /\ method' = "POST"
    /\ payload' = p
    /\ pc' = "parse"
    /\ UNCHANGED <<VERIFY_TOKEN, args, sender, image, text, destination,
                   exc, calls, resp>>

\* lines 121-143
Parse ==
    /\ pc = "parse"
    /\ LET r == ParseResult(payload)
       IN  /\ pc' = CASE r = "return"  -> "respond"
                      [] r = "message" -> "validate"
                      [] OTHER         -> "except"
           /\ exc' = IF r \in {"return", "message"} THEN "none" ELSE r
           /\ sender' = IF r = "message" THEN payload.from ELSE sender
           /\ image'  = IF r = "message" THEN payload.image ELSE image
           /\ text'   = IF r = "message" THEN payload.body ELSE text
    /\ UNCHANGED <<VERIFY_TOKEN, method, args, payload, destination, calls, resp>>

\* lines 149-175, up to the first outbound request
Validate ==
    /\ pc = "validate"
    /\ LET r == Validation(image, text)
           raised == r \in {"TypeError", "KeyError"}
       IN  /\ pc' = IF raised THEN "except" ELSE r
           /\ exc' = IF raised THEN r ELSE "none"
           /\ destination' =
                 IF ImageMissing(image) \/ text \in {NoNumber, NonStringBody}
                 THEN destination
                 ELSE extract_valid_number(text)
    /\ UNCHANGED <<VERIFY_TOKEN, method, args, payload, sender, image, text,
                   calls, resp>>

\* send_text(to, ...) at control point `at`
SendText(at, about) ==
    /\ pc = at
    /\ \E o \in MessageOutcomes :
          /\ calls' = Append(calls, Call("send_text", sender, about, o))
          /\ exc' = RequestRaises(o)
          /\ pc' = AfterSendText(o)
    /\ UNCHANGED <<VERIFY_TOKEN, method, args, payload, sender, image, text,
                   destination, resp>>

NotifyImageRequired  == SendText("notify_image_required", "image_required")
NotifyNumberRequired == SendText("notify_number_required", "number_required")
NotifyInvalidFormat  == SendText("notify_invalid_format", "invalid_format")
NotifyDownloadError  == SendText("notify_download_error", "download_error")
NotifyUploadError    == SendText("notify_upload_error", "upload_error")
SendConfirmation     == SendText("confirm", "confirmation")

\* download_media: GET {GRAPH_URL}/{media_id}
ResolveMediaUrl ==
    /\ pc = "resolve"
    /\ \E o \in MediaOutcomes :
          /\ calls' = Append(calls, Call("resolve", NoNumber, "media", o))
          /\ pc' = AfterResolve(o)
    /\ UNCHANGED <<VERIFY_TOKEN, method, args, payload, sender, image, text,
                   destination, exc, resp>>

\* download_media: GET media_url
FetchMedia ==
    /\ pc = "fetch"
    /\ \E o \in MediaOutcomes :
          /\ calls' = Append(calls, Call("fetch", NoNumber, "media", o))
          /\ pc' = AfterFetch(o)
    /\ UNCHANGED <<VERIFY_TOKEN, method, args, payload, sender, image, text,
                   destination, exc, resp>>

\* upload_media: POST {GRAPH_URL}/{PHONE_ID}/media
UploadMedia ==
    /\ pc = "upload"
    /\ \E o \in MediaOutcomes :
          /\ calls' = Append(calls, Call("upload", NoNumber, "media", o))
          /\ pc' = AfterUpload(o)
    /\ UNCHANGED <<VERIFY_TOKEN, method, args, payload, sender, image, text,
                   destination, exc, resp>>

\* send_image(destination, new_media_id)
SendImage ==
    /\ pc = "send_image"
    /\ \E o \in MessageOutcomes :
          /\ calls' = Append(calls, Call("send_image", destination, "media", o))
          /\ exc' = RequestRaises(o)
          /\ pc' = AfterSendImage(o)
    /\ UNCHANGED <<VERIFY_TOKEN, method, args, payload, sender, image, text,
                   destination, resp>>

\* lines 198-199: `except Exception:` logs and falls through to line 201;
\* an exception it did not handle would leave the view and Flask would
\* answer 500.
Except ==
    /\ pc = "except"
    /\ IF Handled(exc)
       THEN /\ exc' = "none"
            /\ pc' = "respond"
            /\ resp' = resp
       ELSE /\ exc' = exc
            /\ pc' = "done"
            /\ resp' = [status |-> 500, body |-> "Internal Server Error"]
    /\ UNCHANGED <<VERIFY_TOKEN, method, args, payload, sender, image, text,
                   destination, calls>>

\* return jsonify(ok=True), 200
Respond ==
    /\ pc = "respond"
    /\ resp' = [status |-> 200, body |-> "{\"ok\": true}"]
    /\ pc' = "done"
    /\ UNCHANGED <<VERIFY_TOKEN, method, args, payload, sender, image, text,
                   destination, exc, calls>>

Next ==
    \/ \E q \in Queries : verify(q)
    \/ \E p \in Payloads : webhook(p)
    \/ Parse
    \/ Validate
    \/ NotifyImageRequired
    \/ NotifyNumberRequired
    \/ NotifyInvalidFormat
    \/ ResolveMediaUrl
    \/ FetchMedia
    \/ NotifyDownloadError
    \/ UploadMedia
    \/ NotifyUploadError
    \/ SendImage
    \/ SendConfirmation
    \/ Except
    \/ Respond

Spec == Init /\ [][Next]_vars

----------------------------------------------------------------------------
(* extract_valid_number on its own, over the wider family of captions.     *)

InitExtract ==
    /\ VERIFY_TOKEN = None
    /\ pc = "extract"
    /\ method = "none"
    /\ args = NoQuery
    /\ payload = WellFormed
    /\ sender = NoNumber
    /\ image = "absent"
    /\ text \in Captions
    /\ destination = NoNumber
    /\ exc = "none"
    /\ calls = << >>
    /\ resp = NoResponse

ExtractValidNumber ==
    /\ pc = "extract"
    /\ destination' = extract_valid_number(text)
    /\ pc' = "extracted"
    /\ UNCHANGED <<VERIFY_TOKEN, method, args, payload, sender, image, text,
                   exc, calls, resp>>

NextExtract == ExtractValidNumber

SpecExtract == InitExtract /\ [][NextExtract]_vars

----------------------------------------------------------------------------
(* Properties.                                                             *)

Acknowledged == [status |-> 200, body |-> "{\"ok\": true}"]

Forbidden == [status |-> 403, body |-> "Forbidden"]

Last(q) == q[Len(q)]

IsPrefix(a, b) == Len(a) <= Len(b) /\ SubSeq(b, 1, Len(a)) = a

\* The handler has stopped making outbound requests.
Settled == pc \in {"except", "respond", "done"}

\* The envelope leads to a first message that is a JSON object.
HasMessage(p) ==
    /\ p.data = "object" /\ p.entry = "ok" /\ p.changes = "ok"
    /\ p.value = "ok" /\ p.messages = "ok"

\* The body is a non-empty string.
IsCaption(b) == b # NoNumber /\ b # NonStringBody

\* Exactly the one text `about`, to the sender, once the handler is through;
\* nothing else before.
OnlyText(about) ==
    /\ Len(calls) <= 1
    /\ Settled => Len(calls) = 1
    /\ Len(calls) = 1 =>
          /\ calls[1].op = "send_text"
          /\ calls[1].about = about
          /\ calls[1].to = payload.from

\* C1: POST /webhook answers 200 {"ok": true} on every path, whatever the
\* body and whatever the outcome of any outbound request; no other status is
\* ever returned and no exception leaves the handler.
C1_AlwaysAcknowledged ==
    method = "POST" =>
        /\ resp \in {NoResponse, Acknowledged}
        /\ pc = "done" => resp = Acknowledged /\ exc = "none"

\* C1 witness: answered after the confirmation text timed out.
C1_Witness ==
    /\ method = "POST" /\ pc = "done" /\ resp = Acknowledged
    /\ Len(calls) = 5
    /\ Last(calls).op = "send_text" /\ Last(calls).outcome = "timeout"

\* The five steps of a relay, in order; 0 for the error texts.
StepNo(c) ==
    CASE c.op = "resolve"    -> 1
      [] c.op = "fetch"      -> 2
      [] c.op = "upload"     -> 3
      [] c.op = "send_image" -> 4
      [] c.op = "send_text" /\ c.about = "confirmation" -> 5
      [] OTHER               -> 0

\* C2: with an image and a caption holding a valid destination D the calls
\* are resolve, fetch, upload, send image to D, confirmation to the sender,
\* in this order and each at most once, and once one of them fails none of
\* the later ones is made (no confirmation after a failed image send).
C2_StopAtFirstFailure ==
    (method = "POST" /\ destination # NoNumber) =>
        \A i \in 1..Len(calls) :
            LET n == StepNo(calls[i])
            IN  n > 0 =>
                  /\ \A k \in 1..(n - 1) :
                        \E h \in 1..(i - 1) : StepNo(calls[h]) = k
                  /\ \A j \in (i + 1)..Len(calls) :
                        StepNo(calls[j]) = 0 \/ StepNo(calls[j]) > n
                  /\ n = 4 => calls[i].to = destination
                  /\ n = 5 => calls[i].to = sender
                  /\ calls[i].outcome # "ok" =>
                        \A j \in (i + 1)..Len(calls) : StepNo(calls[j]) = 0

\* C3: when resolving, fetching or uploading fails, the only further call is
\* one error text to the sender (download error, respectively upload error),
\* and nothing is uploaded, sent or confirmed after it.
C3_OneErrorTextThenStop ==
    method = "POST" =>
        \A i \in 1..Len(calls) :
            (calls[i].op \in {"resolve", "fetch", "upload"}
                /\ calls[i].outcome # "ok") =>
                  /\ Len(calls) <= i + 1
                  /\ Settled => Len(calls) = i + 1
                  /\ Len(calls) = i + 1 =>
                        /\ calls[i + 1].op = "send_text"
                        /\ calls[i + 1].to = sender
                        /\ calls[i + 1].about =
                              IF calls[i].op = "upload"
                              THEN "upload_error" ELSE "download_error"

\* C3 witness: the upload answered without an id and the sender was told.
C3_Witness ==
    /\ pc = "done" /\ Len(calls) = 4
    /\ calls[3].op = "upload" /\ calls[3].outcome = "incomplete"
    /\ calls[4].about = "upload_error"

\* C4 as stated: every event whose first message has no image, whatever its
\* caption, leads to exactly one call, the image-required text to the sender.
C4_Original ==
    (method = "POST" /\ HasMessage(payload) /\ ImageMissing(payload.image)) =>
        (pc \notin {"idle", "parse"} => OnlyText("image_required"))

\* C4: every event whose first message has no image and whose text field is
\* absent or a JSON object, whatever the body in it, leads to exactly one
\* call, the image-required text to the sender.
C4_ImageRequiredOnly ==
    (method = "POST" /\ HasMessage(payload) /\ ImageMissing(payload.image)
        /\ payload.text # "bad") =>
        (pc \notin {"idle", "parse"} => OnlyText("image_required"))

\* C4 witness: no image, a caption with a valid destination, one text sent.
C4_Witness ==
    /\ pc = "done" /\ ImageMissing(image)
    /\ text = NumberA
    /\ Len(calls) = 1 /\ calls[1].about = "image_required"

\* C5: an image and a non-empty caption from which no destination can be
\* extracted lead to exactly one call, the format-error text to the sender.
C5_FormatErrorOnly ==
    (method = "POST" /\ HasMessage(payload) /\ ~ImageMissing(payload.image)
        /\ payload.text = "ok" /\ IsCaption(payload.body)
        /\ extract_valid_number(payload.body) = NoNumber) =>
        (pc \notin {"idle", "parse", "validate"} => OnlyText("invalid_format"))

\* C5 witness: image with the caption "hola".
C5_Witness ==
    /\ pc = "done" /\ image = "ok" /\ text = Hola
    /\ Len(calls) = 1 /\ calls[1].about = "invalid_format"

\* The envelope is broken, carries no messages, or an empty list of them.
NothingToDo(p) ==
    \/ p.data # "object" \/ p.entry # "ok" \/ p.changes # "ok"
    \/ p.value # "ok" \/ p.messages = "empty"

\* C6: malformed JSON, absent, empty or malformed entry/changes/value, no
\* messages field or an empty messages list: no outbound call at all, and
\* the answer is 200 {"ok": true}.
C6_NothingToDo ==
    (method = "POST" /\ NothingToDo(payload)) =>
        /\ calls = << >>
        /\ resp \in {NoResponse, Acknowledged}
        /\ pc = "done" => resp = Acknowledged

\* C6 witness: an empty messages list was acknowledged.
C6_Witness ==
    /\ method = "POST" /\ pc = "done"
    /\ payload.messages = "empty" /\ resp = Acknowledged /\ calls = << >>

\* C7: GET /webhook answers 200 with the challenge when mode is "subscribe"
\* and the token supplied equals the configured secret, and 403 "Forbidden"
\* for any mismatch, a request without token or without mode included; it
\* makes no outbound call.
C7_VerifyOrForbidden ==
    (method = "GET" /\ pc = "done") =>
        /\ calls = << >>
        /\ (args.mode = None \/ args.token = None) => resp = Forbidden
        /\ (args.mode # "subscribe" \/ args.token # VERIFY_TOKEN)
              => resp = Forbidden
        /\ (args.mode = "subscribe" /\ args.token # None
              /\ args.token = VERIFY_TOKEN /\ args.challenge # None)
              => resp = [status |-> 200, body |-> args.challenge]

\* An 11-character window "569" + 8 digits starting right after offset i.
Window(s, i) ==
    /\ i + 11 <= Len(s)
    /\ SubSeq(s, i + 1, i + 3) = <<"5", "6", "9">>
    /\ \A k \in (i + 4)..(i + 11) : s[k] \in Digits

\* ... with no digit right before or after it
DigitBounded(s, i) ==
    /\ Window(s, i)
    /\ i = 0 \/ s[i] \notin Digits
    /\ i + 11 = Len(s) \/ s[i + 12] \notin Digits

\* ... with no letter, digit or underscore right before or after it
WordBounded(s, i) ==
    /\ Window(s, i)
    /\ i = 0 \/ s[i] \notin (Digits \cup Letters \cup {"_"})
    /\ i + 11 = Len(s) \/ s[i + 12] \notin (Digits \cup Letters \cup {"_"})

\* C8 as stated: the result is the first "569" + 8 digits run bounded by
\* non-digits or string edges, whatever those non-digits are, and nothing
\* when the caption has no such run.
C8_Original ==
    pc = "extracted" =>
        LET at == {i \in 0..Len(text) : DigitBounded(text, i)}
        IN  IF at = {} THEN destination = NoNumber
            ELSE \E i \in at :
                    /\ \A j \in at : i <= j
                    /\ destination = SubSeq(text, i + 1, i + 11)

\* C8: the result is the first "569" + 8 digits run bounded on each side by
\* a string edge or a character that is no letter, digit or underscore, and
\* nothing when the caption has no such run.
C8_FirstWordBoundedRun ==
    pc = "extracted" =>
        LET at == {i \in 0..Len(text) : WordBounded(text, i)}
        IN  IF at = {} THEN destination = NoNumber
            ELSE \E i \in at :
                    /\ \A j \in at : i <= j
                    /\ destination = SubSeq(text, i + 1, i + 11)

\* C8 witness: two valid runs, the first one returned.
C8_Witness ==
    /\ pc = "extracted"
    /\ text = NumberA \o <<" ">> \o NumberB
    /\ destination = NumberA

\* No run of exactly 11 digits anywhere in s.
NoElevenDigitRun(s) ==
    ~\E i \in 0..Len(s) :
        /\ i + 11 <= Len(s)
        /\ \A k \in (i + 1)..(i + 11) : s[k] \in Digits
        /\ i = 0 \/ s[i] \notin Digits
        /\ i + 11 = Len(s) \/ s[i + 12] \notin Digits

\* C9: a destination is 11 digits, starts with "569", occurs in the caption
\* and has no digit right before or after it there; a caption whose digit
\* runs are all shorter or longer than 11 gives no destination, and then no
\* image is forwarded.
C9_ExactlyElevenDigits ==
    method = "POST" =>
        /\ destination # NoNumber =>
              /\ Len(destination) = 11
              /\ \E i \in 0..Len(text) :
                    /\ DigitBounded(text, i)
                    /\ destination = SubSeq(text, i + 1, i + 11)
        /\ (pc \notin {"idle", "parse"} /\ IsCaption(text)
                /\ NoElevenDigitRun(text)) =>
              /\ destination = NoNumber
              /\ \A i \in 1..Len(calls) : calls[i].op # "send_image"

\* C9 witness: the 13-digit caption got the format-error text and no image.
C9_Witness ==
    /\ pc = "done" /\ image = "ok" /\ text = TooLong
    /\ destination = NoNumber
    /\ Len(calls) = 1 /\ calls[1].about = "invalid_format"

\* Where the handler goes after the request made at control point p ends o.
AfterCall(p, o) ==
    CASE p = "resolve"    -> AfterResolve(o)
      [] p = "fetch"      -> AfterFetch(o)
      [] p = "upload"     -> AfterUpload(o)
      [] p = "send_image" -> AfterSendImage(o)
      [] OTHER            -> AfterSendText(o)

\* Control points from which the same calls and the same answer follow.
Continuation(p) == IF p \in {"except", "respond", "done"} THEN "respond" ELSE p

\* C10: a call that fails in any other way (HTTP error status, network
\* error) is followed by what follows a timeout of that call: the same
\* further calls and the same answer.
C10_TimeoutLikeAnyFailure ==
    [][(Len(calls') = Len(calls) + 1
            /\ Last(calls').outcome \in {"http_error", "network_error"})
        => Continuation(pc') = Continuation(AfterCall(pc, "timeout"))]_vars

====
